---------------------------- MODULE Spec2Model ----------------------------
(***************************************************************************)
(* Model of the video forensic analysis pipeline of csdf/forensic:         *)
(*   forensic.py            extract_frames, scene_changes, frame_hashes,   *)
(*                          find_duplicate_hashes, build_report            *)
(*   frame_extractor.py     extract_frames (second sampler variant)        *)
(*   orientation_detector.py detect_rotation_from_metadata                 *)
(*                                                                         *)
(* A video is the sequence of frames its decoder yields; a frame is an     *)
(* abstract image value.  cap.read() returns a frame while frames remain   *)
(* and (False, None) after the last decodable frame.                       *)
(***************************************************************************)
EXTENDS Integers, Sequences, FiniteSets, TLC

VARIABLES
    samp,   \* Frame Sampler pass: inputs and loop state of extract_frames
    scn,    \* Scene-Change Detector pass: inputs and loop state of scene_changes
    dup,    \* Duplicate-Frame Detector: frame_hashes loop, find_duplicate_hashes
    rot,    \* detect_rotation_from_metadata: input metadata and result
    run,    \* build_report: its arguments, its locals and where it stands
    fs,     \* the working directory of build_report: frames/, ela/, the report
    eng     \* ELA Engine: one call of ela_image_analysis / ela_from_image

vars == <<samp, scn, dup, rot, run, fs, eng>>

Idle == [pc |-> "idle"]

Min(a, b) == IF a <= b THEN a ELSE b

\* ceil(a / b) for b >= 1
CeilDiv(a, b) == (a + b - 1) \div b

-----------------------------------------------------------------------------
(***************************************************************************)
(* Frame Sampler: extract_frames                                           *)
(***************************************************************************)
MaxFrames == 7      \* longest video of the sampler pass
MaxStride == 3      \* largest stride N
MaxCap == 3         \* largest cap C; 0 stands for max_frames=None/0 (no cap)

\* forensic.py extract_frames: state at the top of `while True`.
ExtractInit(total, n, c) ==
    [pc |-> "loop", impl |-> "forensic", total |-> total, every_n |-> n,
     max_frames |-> c, frame_idx |-> 0, saved |-> 0, emitted |-> <<>>,
     success |-> TRUE]

\* the cap test with `>` for `>=`: one frame too many
CapReachedOffByOne(max_frames, saved) == max_frames # 0 /\ saved > max_frames

\* `if max_frames and saved >= max_frames: break`, saved already incremented
CapReached(max_frames, saved) == max_frames # 0 /\ saved >= max_frames

\* One iteration of the `while True` loop of forensic.py extract_frames.
\* cap.read() succeeds exactly while frame_idx < total: one read per iteration.
ExtractStep(st) ==
    IF st.frame_idx >= st.total
    THEN [st EXCEPT !.pc = "done"]                      \* if not ret: break
    ELSE IF st.frame_idx % st.every_n = 0
         THEN LET w == [st EXCEPT !.emitted = Append(@, st.frame_idx),
                                  !.saved = @ + 1]
              IN  IF CapReached(w.max_frames, w.saved)
                  THEN [w EXCEPT !.pc = "done"]         \* break before frame_idx += 1
                  ELSE [w EXCEPT !.frame_idx = @ + 1]
         ELSE [st EXCEPT !.frame_idx = @ + 1]

\* frame_extractor.py extract_frames: state at the `while success` test,
\* after the first cap.read().
ExtractInit2(total, n, c) ==
    [pc |-> "loop", impl |-> "frame_extractor", total |-> total, every_n |-> n,
     max_frames |-> c, frame_idx |-> 0, saved |-> 0, emitted |-> <<>>,
     success |-> (0 < total)]

\* One iteration of `while success` of frame_extractor.py extract_frames.
ExtractStep2(st) ==
    IF ~st.success
    THEN [st EXCEPT !.pc = "done"]
    ELSE IF st.frame_idx % st.every_n = 0 /\ st.max_frames # 0
            /\ st.saved >= st.max_frames
         THEN [st EXCEPT !.pc = "done"]                 \* break
         ELSE LET w == IF st.frame_idx % st.every_n = 0
                       THEN [st EXCEPT !.emitted = Append(@, st.frame_idx),
                                       !.saved = @ + 1]
                       ELSE st
              IN  [w EXCEPT !.frame_idx = @ + 1,
                            !.success = (st.frame_idx + 1 < st.total)]

RECURSIVE RunExtract(_)
\* extract_frames run to its return
RunExtract(st) == IF st.pc = "done" THEN st ELSE RunExtract(ExtractStep(st))

SamplerInit ==
    /\ \E total \in 0..MaxFrames, n \in 1..MaxStride, c \in 0..MaxCap :
          samp \in {ExtractInit(total, n, c), ExtractInit2(total, n, c)}
    /\ scn = Idle /\ dup = Idle /\ rot = Idle /\ run = Idle /\ fs = Idle /\ eng = Idle

SamplerIterate ==
    /\ samp.pc = "loop" /\ samp.impl = "forensic"
    /\ samp' = ExtractStep(samp)
    /\ UNCHANGED <<scn, dup, rot, run, fs, eng>>

SamplerIterate2 ==
    /\ samp.pc = "loop" /\ samp.impl = "frame_extractor"
    /\ samp' = ExtractStep2(samp)
    /\ UNCHANGED <<scn, dup, rot, run, fs, eng>>

SamplerNext == SamplerIterate \/ SamplerIterate2

SpecSampler == SamplerInit /\ [][SamplerNext]_vars

\* C1: for stride N >= 1 and cap C >= 1, a finished sampling pass over a video
\* of `total` decodable frames has emitted exactly min(C, ceil(total / N))
\* frames, whose source offsets are 0, N, 2N, ... in strictly increasing order.
C1_SamplingBound ==
    (samp.pc = "done" /\ samp.max_frames >= 1) =>
        /\ Len(samp.emitted) = Min(samp.max_frames, CeilDiv(samp.total, samp.every_n))
        /\ samp.saved = Len(samp.emitted)
        /\ \A i \in 1..Len(samp.emitted) : samp.emitted[i] = (i - 1) * samp.every_n
        /\ \A i \in 1..(Len(samp.emitted) - 1) : samp.emitted[i] < samp.emitted[i + 1]

\* a finished pass in which the cap, not the end of the video, ended sampling
C1_Witness ==
    /\ samp.pc = "done" /\ samp.impl = "forensic"
    /\ samp.every_n = 2 /\ samp.max_frames = 3 /\ samp.total = 7
    /\ samp.emitted = <<0, 2, 4>>

-----------------------------------------------------------------------------
(***************************************************************************)
(* Scene-Change Detector: scene_changes                                    *)
(***************************************************************************)
MaxSceneFrames == 5 \* longest video of the scene-change pass
MaxImage == 2       \* frames take the image values 0, ImageStep, .., MaxImage*ImageStep
ImageStep == 4      \* spacing of the image values, in tenths of the distance range
MaxMinDist == 3     \* largest min_distance_frames
DistOne == 10       \* the Bhattacharyya distance ranges over [0, 1]: 0..10 tenths

Images == {k * ImageStep : k \in 0..MaxImage}

\* thresholds, in tenths: below every distance, the default 0.5, above every distance
Thresholds == {0, DistOne \div 2, DistOne}

Abs(x) == IF x < 0 THEN -x ELSE x

\* cv2.compareHist(prev_hist, hist, HISTCMP_BHATTACHARYYA) of the normalized
\* HSV histograms of two frames: 0 for equal images, bounded by 1, symmetric.
CompareHist(a, b) == Min(DistOne, Abs(a - b))

Last(s) == s[Len(s)]

\* the separation test dropped
SeparationIgnored(changes, idx, min_distance_frames) == TRUE

\* `not changes or idx - changes[-1] >= min_distance_frames`
SeparationOk(changes, idx, min_distance_frames) ==
    changes = <<>> \/ idx - Last(changes) >= min_distance_frames

\* `>=` for `>`
ThresholdReached(d, threshold) == d >= threshold

\* `if d > threshold`
ThresholdExceeded(d, threshold) == d > threshold

\* scene_changes: state at the top of `while True`; prev_hist None is <<>>.
SceneInit(video, threshold, min_distance_frames) ==
    [pc |-> "loop", video |-> video, threshold |-> threshold,
     min_distance_frames |-> min_distance_frames,
     prev_hist |-> <<>>, changes |-> <<>>, idx |-> 0, distances |-> <<>>]

\* One iteration of the `while True` loop of scene_changes.
SceneStep(st) ==
    IF st.idx >= Len(st.video)
    THEN [st EXCEPT !.pc = "done"]                      \* if not ret: break
    ELSE LET hist == st.video[st.idx + 1]
             d == CompareHist(st.prev_hist[1], hist)
             flag == /\ ThresholdExceeded(d, st.threshold)
                     /\ SeparationOk(st.changes, st.idx, st.min_distance_frames)
             w == IF st.prev_hist # <<>>
                  THEN [st EXCEPT !.distances = Append(@, <<st.idx, d>>),
                                  !.changes = IF flag THEN Append(@, st.idx) ELSE @]
                  ELSE st
         IN  [w EXCEPT !.prev_hist = <<hist>>, !.idx = @ + 1]

RECURSIVE RunScene(_)
\* scene_changes run to its return
RunScene(st) == IF st.pc = "done" THEN st ELSE RunScene(SceneStep(st))

RECURSIVE SeqsUpTo(_, _)
\* all sequences over S of length at most n
SeqsUpTo(S, n) ==
    IF n = 0 THEN {<<>>}
    ELSE LET shorter == SeqsUpTo(S, n - 1)
         IN  shorter \cup {Append(s, x) : s \in {t \in shorter : Len(t) = n - 1}, x \in S}

SceneSpecInit ==
    /\ \E video \in SeqsUpTo(Images, MaxSceneFrames), t \in Thresholds,
          m \in 0..MaxMinDist : scn = SceneInit(video, t, m)
    /\ samp = Idle /\ dup = Idle /\ rot = Idle /\ run = Idle /\ fs = Idle /\ eng = Idle

SceneIterate ==
    /\ scn.pc = "loop"
    /\ scn' = SceneStep(scn)
    /\ UNCHANGED <<samp, dup, rot, run, fs, eng>>

SceneNext == SceneIterate

SpecScene == SceneSpecInit /\ [][SceneNext]_vars

Range(s) == {s[i] : i \in 1..Len(s)}

\* distance between frame i and frame i-1 of a video (frames are numbered from 0)
FrameDistance(video, i) == CompareHist(video[i], video[i + 1])

\* C2: any two consecutive flagged indices are at least min_distance_frames apart.
C2_Separation ==
    scn.pc # "idle" =>
        \A i \in 1..(Len(scn.changes) - 1) :
            scn.changes[i + 1] - scn.changes[i] >= scn.min_distance_frames

\* a finished pass that suppressed a candidate inside the separation window and
\* flagged the next one outside it
C2_Witness ==
    /\ scn.pc = "done" /\ scn.min_distance_frames = 3
    /\ scn.changes = <<1, 4>>
    /\ \E i \in 2..3 : FrameDistance(scn.video, i) > scn.threshold

\* C10: when scene_changes returns, index i is flagged exactly when the distance
\* between frame i and frame i-1 exceeds the threshold and either no earlier index
\* is flagged or i is at least min_distance_frames past the last flagged index
\* before it; one (index, distance) pair is recorded for every index
\* 1..total_frames-1; the flagged list is strictly increasing, and empty for a
\* video of fewer than 2 frames.
C10_FlagRule ==
    scn.pc = "done" =>
        LET n == Len(scn.video)
            flagged == Range(scn.changes)
            earlier(i) == {c \in flagged : c < i}
        IN  /\ flagged \subseteq 1..(n - 1)
            /\ \A i \in 1..(n - 1) :
                  i \in flagged <=>
                     /\ FrameDistance(scn.video, i) > scn.threshold
                     /\ \/ earlier(i) = {}
                        \/ \A c \in earlier(i) : i - c >= scn.min_distance_frames
            /\ Len(scn.distances) = (IF n = 0 THEN 0 ELSE n - 1)
            /\ \A i \in 1..(n - 1) :
                  scn.distances[i] = <<i, FrameDistance(scn.video, i)>>
            /\ \A i \in 1..(Len(scn.changes) - 1) : scn.changes[i] < scn.changes[i + 1]
            /\ (n < 2 => scn.changes = <<>>)

\* a finished pass with a flagged index, an unflagged index below the threshold
\* and an index above the threshold suppressed by the separation rule
C10_Witness ==
    /\ scn.pc = "done" /\ Len(scn.video) = 5 /\ scn.min_distance_frames = 2
    /\ scn.changes = <<1, 3>>
    /\ FrameDistance(scn.video, 2) > scn.threshold
    /\ FrameDistance(scn.video, 4) <= scn.threshold

-----------------------------------------------------------------------------
(***************************************************************************)
(* Duplicate-Frame Detector: frame_hashes, find_duplicate_hashes           *)
(***************************************************************************)
MaxDupFrames == 5   \* longest video of the duplicate-detection pass

\* The mean-threshold bitstring of the 16x16 grayscale thumbnail of a frame.
\* It is coarse: images that differ only slightly share a fingerprint.
Fingerprint(img) == img \div (2 * ImageStep)

\* frame_hashes: state at the top of `while True`.
HashInit(video, sample_every_n) ==
    [pc |-> "loop", video |-> video, sample_every_n |-> sample_every_n,
     idx |-> 0, hashes |-> <<>>, duplicates |-> <<>>]

\* One iteration of the `while True` loop of frame_hashes; the return leaves
\* the list of (idx, h) pairs in `hashes`.
HashStep(st) ==
    IF st.idx >= Len(st.video)
    THEN [st EXCEPT !.pc = "hashed"]                    \* if not ret: break
    ELSE LET w == IF st.idx % st.sample_every_n = 0
                  THEN [st EXCEPT !.hashes =
                            Append(@, <<st.idx, Fingerprint(st.video[st.idx + 1])>>)]
                  ELSE st
         IN  [w EXCEPT !.idx = @ + 1]

RECURSIVE RunHashes(_)
\* frame_hashes run to its return
RunHashes(st) == IF st.pc = "hashed" THEN st ELSE RunHashes(HashStep(st))

\* index.setdefault(h, []).append(idx) on a dict kept in insertion order:
\* a sequence of <<h, lst>> entries with distinct h
SetDefaultAppend(index, h, idx) ==
    IF \E k \in 1..Len(index) : index[k][1] = h
    THEN [k \in 1..Len(index) |->
             IF index[k][1] = h THEN <<h, Append(index[k][2], idx)>> ELSE index[k]]
    ELSE Append(index, <<h, <<idx>>>>)

RECURSIVE BuildIndex(_, _)
\* the first loop of find_duplicate_hashes over hashes[1..n]
BuildIndex(hashes, n) ==
    IF n = 0 THEN <<>>
    ELSE SetDefaultAppend(BuildIndex(hashes, n - 1), hashes[n][2], hashes[n][1])

\* every group reported, single frames included
IsDuplicateGroupAny(entry) == Len(entry[2]) >= 1

\* `if len(lst) > 1`
IsDuplicateGroup(entry) == Len(entry[2]) > 1

\* find_duplicate_hashes(hashes)
FindDuplicateHashes(hashes) ==
    SelectSeq(BuildIndex(hashes, Len(hashes)), IsDuplicateGroup)

DupSpecInit ==
    /\ \E video \in SeqsUpTo(Images, MaxDupFrames), n \in 1..MaxStride :
          dup = HashInit(video, n)
    /\ samp = Idle /\ scn = Idle /\ rot = Idle /\ run = Idle /\ fs = Idle /\ eng = Idle

HashIterate ==
    /\ dup.pc = "loop"
    /\ dup' = HashStep(dup)
    /\ UNCHANGED <<samp, scn, rot, run, fs, eng>>

FindDuplicates ==
    /\ dup.pc = "hashed"
    /\ dup' = [dup EXCEPT !.pc = "done", !.duplicates = FindDuplicateHashes(dup.hashes)]
    /\ UNCHANGED <<samp, scn, rot, run, fs, eng>>

DupNext == HashIterate \/ FindDuplicates

SpecDup == DupSpecInit /\ [][DupNext]_vars

\* C3: every group reported by find_duplicate_hashes for the (index, fingerprint)
\* pairs of frame_hashes has at least 2 members, every index of a group is a
\* sampled frame whose fingerprint is the group's, and no sampled frame index
\* appears in two groups or twice in one.
C3_DuplicateGroups ==
    dup.pc = "done" =>
        LET groups == dup.duplicates
        IN  /\ \A g \in 1..Len(groups) : Len(groups[g][2]) >= 2
            /\ \A g \in 1..Len(groups) : \A k \in 1..Len(groups[g][2]) :
                  LET i == groups[g][2][k]
                  IN  /\ <<i, groups[g][1]>> \in Range(dup.hashes)
                      /\ i % dup.sample_every_n = 0
                      /\ Fingerprint(dup.video[i + 1]) = groups[g][1]
            /\ \A p \in Range(dup.hashes) :
                  Cardinality({<<g, k>> \in (1..Len(groups)) \X (1..MaxDupFrames + 1) :
                                  k <= Len(groups[g][2]) /\ groups[g][2][k] = p[1]}) <= 1

\* a finished detection over every frame that reports two groups
C3_Witness ==
    /\ dup.pc = "done" /\ Len(dup.duplicates) = 2
    /\ dup.sample_every_n = 1

-----------------------------------------------------------------------------
(***************************************************************************)
(* Rotation: detect_rotation_from_metadata                                 *)
(*                                                                         *)
(* A JSON value is Null, Num(n) or Str(s); a Python str is the sequence of *)
(* its characters.                                                         *)
(***************************************************************************)
MaxStreams == 2     \* most streams in the metadata
MaxSideData == 2    \* most side_data_list entries over all streams together

Null == [t |-> "null"]
Num(n) == [t |-> "num", n |-> n]
Str(s) == [t |-> "str", s |-> s]
Raised == [t |-> "raise"]       \* an exception leaves the function

Digits == <<"0", "1", "2", "3", "4", "5", "6", "7", "8", "9">>

IsDigit(c) == \E d \in 1..Len(Digits) : Digits[d] = c

DigitValue(c) == (CHOOSE d \in 1..Len(Digits) : Digits[d] = c) - 1

RECURSIVE ParseDigits(_, _)
\* value of the digit string s[1..n]
ParseDigits(s, n) ==
    IF n = 0 THEN 0 ELSE Len(Digits) * ParseDigits(s, n - 1) + DigitValue(s[n])

\* int(s) for a str: an optional sign and one or more decimal digits; anything
\* else is a ValueError (ok = FALSE)
ParseInt(s) ==
    LET signed == Len(s) > 0 /\ s[1] \in {"-", "+"}
        body == IF signed THEN Tail(s) ELSE s
    IN  IF Len(body) > 0 /\ \A k \in 1..Len(body) : IsDigit(body[k])
        THEN [ok |-> TRUE,
              n |-> IF signed /\ s[1] = "-" THEN -ParseDigits(body, Len(body))
                    ELSE ParseDigits(body, Len(body))]
        ELSE [ok |-> FALSE, n |-> 0]

\* int(v): a number converts to itself, a str is parsed, None is a TypeError
PyInt(v) ==
    IF v.t = "num" THEN [ok |-> TRUE, n |-> v.n]
    ELSE IF v.t = "str" THEN ParseInt(v.s)
    ELSE [ok |-> FALSE, n |-> 0]

RECURSIVE FormatNat(_)
FormatNat(n) ==
    IF n < Len(Digits) THEN <<Digits[n + 1]>>
    ELSE Append(FormatNat(n \div Len(Digits)), Digits[(n % Len(Digits)) + 1])

\* f"{n}" for an int
FormatInt(n) == IF n < 0 THEN <<"-">> \o FormatNat(-n) ELSE FormatNat(n)

\* f"{n}°"
Degrees(n) == Str(Append(FormatInt(n), "°"))

Unknown == Str(<<"U", "n", "k", "n", "o", "w", "n">>)

\* a rotate tag that does not convert counts as no rotation
RotateTagStrict(v) == IF PyInt(v).ok THEN Degrees(PyInt(v).n) ELSE Degrees(0)

\* try: return f"{int(tags['rotate'])}°"  except Exception: return tags['rotate']
RotateTag(v) == IF PyInt(v).ok THEN Degrees(PyInt(v).n) ELSE v

\* return f"{int(sd.get('rotation'))}°", outside any try
SideRotation(v) == IF PyInt(v).ok THEN Degrees(PyInt(v).n) ELSE Raised

\* A stream: tags is <<>> (no "tags" key, or None/{}: `s.get("tags", {}) or {}`)
\* or <<v>> for a tags dict whose "rotate" is v; side is the side_data_list
\* (missing or None is <<>>), each entry the value of sd.get("rotation").
Stream(tags, side) == [tags |-> tags, side |-> side]

RECURSIVE ScanSideData(_, _)
\* `for sd in s.get("side_data_list", []) or []` from entry j on: <<>> when the
\* loop ends without returning
ScanSideData(side, j) ==
    IF j > Len(side) THEN <<>>
    ELSE IF side[j] # Null THEN <<SideRotation(side[j])>>
    ELSE ScanSideData(side, j + 1)

RECURSIVE ScanStreams(_, _)
\* `for s in streams` from stream i on, and the final return "0°"
ScanStreams(streams, i) ==
    IF i > Len(streams) THEN Degrees(0)
    ELSE LET s == streams[i]
         IN  IF s.tags # <<>> THEN RotateTag(s.tags[1])
             ELSE LET r == ScanSideData(s.side, 1)
                  IN  IF r # <<>> THEN r[1] ELSE ScanStreams(streams, i + 1)

\* meta is [t |-> "none"] (None), [t |-> "dict", empty |-> TRUE] ({}), or a
\* non-empty dict whose streams list is `streams` (<<>> also when it has no
\* "streams" key).
MetaNone == [t |-> "none"]
MetaEmpty == [t |-> "dict", empty |-> TRUE, streams |-> <<>>]
Meta(streams) == [t |-> "dict", empty |-> FALSE, streams |-> streams]

\* detect_rotation_from_metadata(meta)
DetectRotation(meta) ==
    IF meta.t = "none" \/ meta.empty THEN Unknown       \* if not meta
    ELSE ScanStreams(meta.streams, 1)

\* ffprobe prints every tag as a string and a side-data rotation as a number;
\* a rotate tag is container metadata and can hold any text
RotateTags == {Str(<<"9", "0">>), Str(<<"-", "9", "0">>), Str(<<"x">>)}

SideRotations == {Null, Num(-90), Num(180)}

TagChoices == {<<>>} \cup {<<v>> : v \in RotateTags}

SideLists(n) == {s \in SeqsUpTo(SideRotations, n) : Len(s) = n}

RECURSIVE StreamLists(_, _)
\* the stream lists of at most n streams with at most `budget` side-data entries
StreamLists(n, budget) ==
    IF n = 0 THEN {<<>>}
    ELSE {<<>>} \cup
         UNION {{<<Stream(tg, sd)>> \o rest :
                    tg \in TagChoices, sd \in SideLists(k),
                    rest \in StreamLists(n - 1, budget - k)} : k \in 0..budget}

RotSpecInit ==
    /\ \E meta \in {MetaNone, MetaEmpty}
                     \cup {Meta(ss) : ss \in StreamLists(MaxStreams, MaxSideData)} :
          rot = [pc |-> "call", meta |-> meta, result |-> Null]
    /\ samp = Idle /\ scn = Idle /\ dup = Idle /\ run = Idle /\ fs = Idle /\ eng = Idle

Detect ==
    /\ rot.pc = "call"
    /\ rot' = [rot EXCEPT !.pc = "done", !.result = DetectRotation(rot.meta)]
    /\ UNCHANGED <<samp, scn, dup, run, fs, eng>>

RotNext == Detect

SpecRot == RotSpecInit /\ [][RotNext]_vars

Front(s) == SubSeq(s, 1, Len(s) - 1)

\* r is the str "N°" for the integer n
IsDegreesOf(r, n) ==
    /\ r.t = "str" /\ Len(r.s) >= 2 /\ Last(r.s) = "°"
    /\ ParseInt(Front(r.s)) = [ok |-> TRUE, n |-> n]
    /\ Front(r.s)[1] # "+"

RECURSIVE RotationCandidates(_, _)
\* the values the scan can meet, in scan order: per stream the rotate tag, then
\* the side-data rotation values
RotationCandidates(streams, i) ==
    IF i > Len(streams) THEN <<>>
    ELSE streams[i].tags \o streams[i].side \o RotationCandidates(streams, i + 1)

IsNotNull(v) == v # Null

\* C4 as claimed: the first non-null value met, scanning per stream the rotate tag
\* and then the side-data rotations, is the result, rendered "N°"; no value at all
\* gives "0°"; empty metadata gives "Unknown".
C4_FirstNonNullAsDegrees ==
    rot.pc = "done" =>
        IF rot.meta.t = "none" \/ rot.meta.empty THEN rot.result = Unknown
        ELSE LET found == SelectSeq(RotationCandidates(rot.meta.streams, 1), IsNotNull)
             IN  IF found = <<>> THEN IsDegreesOf(rot.result, 0)
                 ELSE /\ PyInt(found[1]).ok
                      /\ IsDegreesOf(rot.result, PyInt(found[1]).n)

\* C4 amended: empty metadata gives "Unknown".  Otherwise the first stream, in
\* order, that has a rotate tag or a non-null side-data rotation decides.  With a
\* rotate tag the result is "N°" when the tag converts to the integer N and the
\* tag's own value, unchanged (null included), when it does not; side data is
\* not looked at.  Without one, the first non-null side-data rotation of that
\* stream gives "N°", and raises when it does not convert.  No such stream
\* gives "0°".
C4_RotationResult ==
    rot.pc = "done" =>
        IF rot.meta.t = "none" \/ rot.meta.empty THEN rot.result = Unknown
        ELSE LET streams == rot.meta.streams
                 nonNull(i) == {j \in 1..Len(streams[i].side) : streams[i].side[j] # Null}
                 deciding == {i \in 1..Len(streams) :
                                 streams[i].tags # <<>> \/ nonNull(i) # {}}
             IN  IF deciding = {} THEN IsDegreesOf(rot.result, 0)
                 ELSE LET k == CHOOSE i \in deciding : \A m \in deciding : i <= m
                          v == IF streams[k].tags # <<>> THEN streams[k].tags[1]
                               ELSE streams[k].side[CHOOSE j \in nonNull(k) :
                                                       \A m \in nonNull(k) : j <= m]
                      IN  IF PyInt(v).ok THEN IsDegreesOf(rot.result, PyInt(v).n)
                          ELSE IF streams[k].tags # <<>> THEN rot.result = v
                          ELSE rot.result = Raised

\* a rotate tag that is no integer is returned as it is, although a later value
\* of the same metadata converts
C4_Witness ==
    /\ rot.pc = "done"
    /\ rot.meta = Meta(<<Stream(<<>>, <<Null>>),
                         Stream(<<Str(<<"x">>)>>, <<Num(-90)>>)>>)
    /\ rot.result = Str(<<"x">>)

-----------------------------------------------------------------------------
(***************************************************************************)
(* Report Assembler: build_report                                          *)
(*                                                                         *)
(* One action per call build_report makes, in the places where a call can  *)
(* raise; `trace` lists the stages as they are called, `failed` the stages *)
(* whose call raised.                                                      *)
(***************************************************************************)
MaxRunFrames == 22      \* longest video given to build_report
MaxCut == 2             \* latest frame at which the video has its hard cut
MaxStaleFrames == 3     \* longest video of an earlier run over the same work_dir
NameWidth == 8          \* f"frame_{frame_idx:08d}.jpg"
ElaLimit == 20          \* sorted(os.listdir(frame_dir))[:min(20, ...)]
ReportMaxFrames == 200  \* extract_frames(..., max_frames=200)
ReportThreshold == 5    \* scene_changes(..., threshold=0.5), in tenths
ReportMinDistance == 5  \* scene_changes(..., min_distance_frames=5)
ReportHashStride == 10  \* frame_hashes(video_path, sample_every_n=10)

\* A video file: `frames` decodable frames, all of one image, or of another
\* image from frame `cut` on when cut > 0.
VideoFile(frames, cut) == [frames |-> frames, cut |-> cut]

Video(file) ==
    [i \in 1..file.frames |->
        IF file.cut > 0 /\ i > file.cut THEN MaxImage * ImageStep ELSE 0]

\* what ffprobe, hashlib and the decoder report for a file: fixed by the file
Probe(file) == <<"ffprobe", file>>
Sha256(file) == <<"sha256", file>>
BitrateStats(file) == <<"stats", file>>
Fps(file) == <<"fps", file>>

\* f"{idx:08d}": the digits of idx, zero-padded on the left to NameWidth
Pad(idx) ==
    LET d == FormatNat(idx)
        z == NameWidth - Len(d)
    IN  IF z <= 0 THEN d
        ELSE [k \in 1..NameWidth |-> IF k <= z THEN "0" ELSE d[k - z]]

\* f"frame_{frame_idx:08d}.jpg", without the fixed "frame_" and ".jpg"
FrameName(idx) == Pad(idx)

\* str < str of Python (digit strings): by the first character that differs,
\* a proper prefix first
StrLess(a, b) ==
    \/ \E k \in 1..Min(Len(a), Len(b)) :
          /\ DigitValue(a[k]) < DigitValue(b[k])
          /\ \A j \in 1..(k - 1) : a[j] = b[j]
    \/ Len(a) < Len(b) /\ \A j \in 1..Len(a) : a[j] = b[j]

\* x put into the sorted sequence srt
InsertSorted(srt, x) ==
    LET below == Cardinality({k \in 1..Len(srt) : StrLess(srt[k], x)})
    IN  SubSeq(srt, 1, below) \o <<x>> \o SubSeq(srt, below + 1, Len(srt))

RECURSIVE Sorted(_)
\* sorted(names)
Sorted(names) ==
    IF names = {} THEN <<>>
    ELSE LET x == CHOOSE y \in names : TRUE
         IN  InsertSorted(Sorted(names \ {x}), x)

\* os.listdir(frame_dir)
ListDir(frames) == DOMAIN frames

\* sorted(os.listdir(frame_dir))[:min(20, len(os.listdir(frame_dir)))]
ElaList(frames) ==
    LET all == Sorted(ListDir(frames))
    IN  SubSeq(all, 1, Min(ElaLimit, Cardinality(ListDir(frames))))

\* max_diff of ela_image_analysis: the largest channel difference between the
\* image and its recompression, a fixed function of the image
ElaMaxDiff(img) == img \div ImageStep

\* cv2.imwrite of every emitted frame: a file of the same name is overwritten
WriteFrames(frames, video, emitted) ==
    LET written == {FrameName(emitted[k]) : k \in 1..Len(emitted)}
        offset(nm) == emitted[CHOOSE k \in 1..Len(emitted) : FrameName(emitted[k]) = nm]
    IN  [nm \in DOMAIN frames \cup written |->
            IF nm \in written THEN video[offset(nm) + 1] ELSE frames[nm]]

\* the order of the calls in build_report
StageAfterSwapped(stage) ==
    CASE stage = "metadata" -> "hash"
      [] stage = "hash" -> "stats"
      [] stage = "stats" -> "frames"
      [] stage = "frames" -> "ela"
      [] stage = "ela" -> "dup"
      [] stage = "dup" -> "scene"
      [] stage = "scene" -> "audio"
      [] stage = "audio" -> "persist"
      [] stage = "persist" -> "done"

\* the order of the calls in build_report
StageAfter(stage) ==
    CASE stage = "metadata" -> "hash"
      [] stage = "hash" -> "stats"
      [] stage = "stats" -> "frames"
      [] stage = "frames" -> "ela"
      [] stage = "ela" -> "scene"
      [] stage = "scene" -> "dup"
      [] stage = "dup" -> "audio"
      [] stage = "audio" -> "persist"
      [] stage = "persist" -> "done"

\* None, and a local not yet assigned
None == <<>>

\* the call of a stage
Called(r, stage) == [r EXCEPT !.trace = Append(@, stage)]

\* the stage returned: build_report goes on to its next call
Returned(r, stage) == [r EXCEPT !.pc = StageAfter(stage)]

\* an exception swallowed: build_report goes on
RaiseSwallowed(r, stage) ==
    [r EXCEPT !.failed = Append(@, stage), !.pc = StageAfter(stage)]

\* an exception no handler of build_report catches: it leaves build_report
Raise(r, stage) == [r EXCEPT !.failed = Append(@, stage), !.pc = "raised"]

\* no handler around the audio stage
AudioExceptMissing(r) == Raise(r, "audio")

\* except Exception as e: spec_out = None
AudioExcept(r) ==
    [r EXCEPT !.failed = Append(@, "audio"), !.spec_out = None,
              !.pc = StageAfter("audio")]

\* the for loop over the ELA list ends when the list is used up
ElaLoopEnd(r) ==
    IF r.ela_i > Len(r.ela_list) THEN [r EXCEPT !.pc = StageAfter("ela")] ELSE r

\* frames an earlier run over a video of m frames with stride n left in frames/
StaleFrames(m, n) ==
    [nm \in {FrameName(k) : k \in {o \in 0..(m - 1) : o % n = 0}} |-> 0]

\* build_report(video_path, work_dir, every_n_frame) at its first call
RunInit(file, every_n_frame) ==
    [pc |-> "metadata", file |-> file, every_n_frame |-> every_n_frame,
     trace |-> <<>>, failed |-> <<>>,
     meta |-> None, sha256 |-> None, stats |-> None, saved |-> None,
     ela_list |-> <<>>, ela_i |-> 1, ela_results |-> None,
     sc_changes |-> None, fps |-> None, duplicates |-> None,
     spec_out |-> None, report |-> None]

\* the working directory: frames/ (name -> image), ela/ (names), the ELA
\* engine's temporary copies, the audio files, the report file (<<>>: none)
FsInit(stale) ==
    [frames |-> stale, ela |-> {}, tmp |-> {}, wav |-> FALSE,
     spectrogram |-> FALSE, report |-> None]

Init ==
    /\ \E n \in 0..MaxRunFrames, c \in 0..MaxCut, stride \in 1..MaxStride,
          m \in 0..MaxStaleFrames, sn \in 1..MaxStride :
          /\ c = 0 \/ c < n
          /\ run = RunInit(VideoFile(n, c), stride)
          /\ fs = FsInit(StaleFrames(m, sn))
    /\ samp = Idle /\ scn = Idle /\ dup = Idle /\ rot = Idle /\ eng = Idle

Others == <<samp, scn, dup, rot, eng>>

\* meta = ffprobe_metadata(video_path)
Metadata ==
    /\ run.pc = "metadata"
    /\ run' = [Returned(Called(run, "metadata"), "metadata") EXCEPT
                  !.meta = Probe(run.file)]
    /\ UNCHANGED <<fs, Others>>

\* ffprobe_metadata raises FileNotFoundError or RuntimeError
MetadataFails ==
    /\ run.pc = "metadata"
    /\ run' = Raise(Called(run, "metadata"), "metadata")
    /\ UNCHANGED <<fs, Others>>

\* sha256 = file_hash(video_path, "sha256")
Hash ==
    /\ run.pc = "hash"
    /\ run' = [Returned(Called(run, "hash"), "hash") EXCEPT
                  !.sha256 = Sha256(run.file)]
    /\ UNCHANGED <<fs, Others>>

\* open or read fails in file_hash
HashFails ==
    /\ run.pc = "hash"
    /\ run' = Raise(Called(run, "hash"), "hash")
    /\ UNCHANGED <<fs, Others>>

\* stats = stream_bitrate_stats(video_path): a second ffprobe_metadata call
Stats ==
    /\ run.pc = "stats"
    /\ run' = [Returned(Called(run, "stats"), "stats") EXCEPT
                  !.stats = BitrateStats(run.file)]
    /\ UNCHANGED <<fs, Others>>

StatsFails ==
    /\ run.pc = "stats"
    /\ run' = Raise(Called(run, "stats"), "stats")
    /\ UNCHANGED <<fs, Others>>

\* saved = extract_frames(video_path, frame_dir, every_n_frame, max_frames=200)
Frames ==
    /\ run.pc = "frames"
    /\ LET st == RunExtract(ExtractInit(run.file.frames, run.every_n_frame,
                                        ReportMaxFrames))
       IN  /\ run' = [Returned(Called(run, "frames"), "frames") EXCEPT
                         !.saved = st.saved]
           /\ fs' = [fs EXCEPT !.frames = WriteFrames(@, Video(run.file), st.emitted)]
    /\ UNCHANGED Others

\* extract_frames raises RuntimeError("Cannot open video")
FramesFails ==
    /\ run.pc = "frames"
    /\ run' = Raise(Called(run, "frames"), "frames")
    /\ UNCHANGED <<fs, Others>>

\* ela_results = {} and the list the for loop runs over
ElaBegin ==
    /\ run.pc = "ela"
    /\ run' = ElaLoopEnd([run EXCEPT !.pc = "ela_loop", !.ela_results = <<>>,
                                     !.ela_list = ElaList(fs.frames), !.ela_i = 1])
    /\ UNCHANGED <<fs, Others>>

\* one pass of the for loop: ela_image_analysis(fpath, out_ela) returns
ElaFrame ==
    /\ run.pc = "ela_loop"
    /\ LET fname == run.ela_list[run.ela_i]
           entry == [ela_image |-> <<"ela", fname>>,
                     max_diff |-> ElaMaxDiff(fs.frames[fname])]
       IN  /\ run' = ElaLoopEnd(
                       [Called(run, "ela") EXCEPT
                           !.ela_i = @ + 1,
                           !.ela_results =
                               [nm \in DOMAIN @ \cup {fname} |->
                                   IF nm = fname THEN entry ELSE @[nm]]])
           /\ fs' = [fs EXCEPT !.ela = @ \cup {fname}]
    /\ UNCHANGED Others

\* ela_image_analysis raises: at Image.open(img_path), before the temporary
\* copy exists, or later, with the temporary copy written
ElaFrameFails ==
    /\ run.pc = "ela_loop"
    /\ \E point \in {"open", "save"} :
          /\ run' = Raise(Called(run, "ela"), "ela")
          /\ fs' = [fs EXCEPT !.tmp = IF point = "save"
                                      THEN @ \cup {run.ela_list[run.ela_i]} ELSE @]
    /\ UNCHANGED Others

\* sc_changes, sc_distances, fps = scene_changes(video_path, 0.5, 5)
Scene ==
    /\ run.pc = "scene"
    /\ LET st == RunScene(SceneInit(Video(run.file), ReportThreshold,
                                    ReportMinDistance))
       IN  run' = [Returned(Called(run, "scene"), "scene") EXCEPT
                      !.sc_changes = st.changes, !.fps = Fps(run.file)]
    /\ UNCHANGED <<fs, Others>>

SceneFails ==
    /\ run.pc = "scene"
    /\ run' = Raise(Called(run, "scene"), "scene")
    /\ UNCHANGED <<fs, Others>>

\* hashes = frame_hashes(video_path, 10); duplicates = find_duplicate_hashes(hashes)
Duplicates ==
    /\ run.pc = "dup"
    /\ LET st == RunHashes(HashInit(Video(run.file), ReportHashStride))
       IN  run' = [Returned(Called(run, "dup"), "dup") EXCEPT
                      !.duplicates = FindDuplicateHashes(st.hashes)]
    /\ UNCHANGED <<fs, Others>>

DuplicatesFails ==
    /\ run.pc = "dup"
    /\ run' = Raise(Called(run, "dup"), "dup")
    /\ UNCHANGED <<fs, Others>>

\* extract_audio and audio_spectrogram return inside the try
Audio ==
    /\ run.pc = "audio"
    /\ run' = [Returned(Called(run, "audio"), "audio") EXCEPT
                  !.spec_out = <<"spectrogram.png">>]
    /\ fs' = [fs EXCEPT !.wav = TRUE, !.spectrogram = TRUE]
    /\ UNCHANGED Others

\* extract_audio raises (no wav), or audio_spectrogram raises (wav written)
AudioFails ==
    /\ run.pc = "audio"
    /\ \E point \in {"extract_audio", "audio_spectrogram"} :
          /\ run' = AudioExcept([Called(run, "audio") EXCEPT
                                    !.spec_out = <<"spectrogram.png">>])
          /\ fs' = [fs EXCEPT !.wav = (point = "audio_spectrogram")]
    /\ UNCHANGED Others

\* the report dict
Report(r) ==
    [file |-> r.file, sha256 |-> r.sha256, metadata |-> r.meta, stats |-> r.stats,
     frames_saved |-> r.saved, ela |-> r.ela_results,
     scene_changes |-> [frames |-> r.sc_changes, fps |-> r.fps],
     hash_duplicates |-> r.duplicates, audio_spectrogram |-> r.spec_out]

\* report = {...}; json.dump(report, f); return report
Persist ==
    /\ run.pc = "persist"
    /\ run' = [Returned(Called(run, "persist"), "persist") EXCEPT
                  !.report = <<Report(run)>>]
    /\ fs' = [fs EXCEPT !.report = <<Report(run)>>]
    /\ UNCHANGED Others

Next ==
    \/ Metadata \/ MetadataFails
    \/ Hash \/ HashFails
    \/ Stats \/ StatsFails
    \/ Frames \/ FramesFails
    \/ ElaBegin \/ ElaFrame \/ ElaFrameFails
    \/ Scene \/ SceneFails
    \/ Duplicates \/ DuplicatesFails
    \/ Audio \/ AudioFails
    \/ Persist

Spec == Init /\ [][Next]_vars

\* the stages the fixed call order names, in that order
StageOrder ==
    <<"metadata", "hash", "frames", "ela", "scene", "dup", "audio", "persist">>

InStageOrder(stage) == stage \in Range(StageOrder)

StagePosition(stage) == CHOOSE k \in 1..Len(StageOrder) : StageOrder[k] = stage

\* C5: in every run of build_report the stages are called in the order Metadata
\* Normalizer, Content Hasher, Frame Sampler, ELA Engine (once per listed frame),
\* Scene-Change Detector, Duplicate-Frame Detector, Audio Spectrogram, persist;
\* a stage is called only after every earlier one was called and returned, and
\* the report is persisted only after all of them.
C5_StageOrder ==
    run.pc # "idle" =>
        LET t == SelectSeq(run.trace, InStageOrder)
            uncaught == {st \in Range(run.failed) : st # "audio"}
        IN  /\ \A i, j \in 1..Len(t) :
                  i < j => \/ StagePosition(t[i]) < StagePosition(t[j])
                           \/ t[i] = "ela" /\ t[j] = "ela"
            /\ \A j \in 1..Len(t) : \A k \in 1..(StagePosition(t[j]) - 1) :
                  StageOrder[k] = "ela" \/ \E i \in 1..(j - 1) : t[i] = StageOrder[k]
            /\ (uncaught # {} => run.pc = "raised" /\ Last(run.trace) \in uncaught)
            /\ ("scene" \in Range(t) =>
                   Cardinality({i \in 1..Len(t) : t[i] = "ela"}) = Len(run.ela_list))
            /\ (fs.report # None =>
                   /\ Last(run.trace) = "persist"
                   /\ Range(StageOrder) \ {"ela"} \subseteq Range(t)
                   /\ uncaught = {})

\* a finished run that ran ELA on several frames and persisted its report
C5_Witness ==
    /\ run.pc = "done" /\ fs.report # None
    /\ run.trace = <<"metadata", "hash", "stats", "frames", "ela", "ela", "ela",
                     "scene", "dup", "audio", "persist">>

\* C6 as claimed: a failure of the ELA Engine on one frame does not abort the
\* run: build_report goes on with the remaining frames and the later stages.
C6_ElaFailureIsolated ==
    (run.pc # "idle" /\ "ela" \in Range(run.failed)) => run.pc # "raised"

\* the report of a run over `file` whose stages all returned, the ELA entries
\* being those of the listing of frames/
ExpectedReport(file, every_n_frame, frames) ==
    [file |-> file, sha256 |-> Sha256(file), metadata |-> Probe(file),
     stats |-> BitrateStats(file),
     frames_saved |->
         RunExtract(ExtractInit(file.frames, every_n_frame, ReportMaxFrames)).saved,
     ela |-> [nm \in Range(ElaList(frames)) |->
                 [ela_image |-> <<"ela", nm>>, max_diff |-> ElaMaxDiff(frames[nm])]],
     scene_changes |->
         [frames |-> RunScene(SceneInit(Video(file), ReportThreshold,
                                        ReportMinDistance)).changes,
          fps |-> Fps(file)],
     hash_duplicates |->
         FindDuplicateHashes(RunHashes(HashInit(Video(file), ReportHashStride)).hashes),
     audio_spectrogram |-> <<"spectrogram.png">>]

\* C7: a failure in the audio stage is caught inside build_report: the run goes
\* on to persist, and the persisted report has audio_spectrogram null and every
\* other field as in the report of a run whose audio stage succeeded.
C7_AudioFailureIsNull ==
    /\ (run.pc # "idle" /\ "audio" \in Range(run.failed)) =>
           /\ run.pc \in {"persist", "done"}
           /\ run.spec_out = None
    /\ run.pc = "done" =>
           /\ fs.report = run.report
           /\ run.report[1] =
                 [ExpectedReport(run.file, run.every_n_frame, fs.frames) EXCEPT
                     !.audio_spectrogram =
                         IF "audio" \in Range(run.failed) THEN None ELSE @]

\* a persisted report with a null spectrogram, ELA entries and a scene change,
\* after audio_spectrogram raised on the extracted wav
C7_Witness ==
    /\ run.pc = "done" /\ run.failed = <<"audio">> /\ fs.wav /\ ~fs.spectrogram
    /\ fs.report # None /\ fs.report[1].audio_spectrogram = None
    /\ DOMAIN fs.report[1].ela # {}
    /\ fs.report[1].scene_changes.frames # <<>>

\* C8: a failure of the metadata probe (either call of it), of hashing or of
\* frame sampling leaves build_report: that stage is the last one called and the
\* run writes no report.
C8_FatalStages ==
    run.pc # "idle" =>
        \A stage \in {"metadata", "stats", "hash", "frames"} :
            stage \in Range(run.failed) =>
                /\ run.pc = "raised"
                /\ Last(run.trace) = stage
                /\ run.failed = <<stage>>
                /\ run.report = None /\ fs.report = None
                /\ fs.ela = {}

\* frame sampling raised after the probe and the hash returned
C8_Witness ==
    /\ run.pc = "raised" /\ run.failed = <<"frames">>
    /\ run.trace = <<"metadata", "hash", "stats", "frames">>
    /\ fs.report = None

\* C9 as claimed: the report of a run holds one ELA result for each frame that
\* run's Frame Sampler emitted and none for any other file, whatever frames/
\* held before the run.
C9_ElaPerSampledFrame ==
    run.pc = "done" =>
        LET emitted == RunExtract(ExtractInit(run.file.frames, run.every_n_frame,
                                              ReportMaxFrames)).emitted
        IN  DOMAIN run.report[1].ela = {FrameName(emitted[k]) : k \in 1..Len(emitted)}

-----------------------------------------------------------------------------
(***************************************************************************)
(* ELA Engine: ela_image_analysis (forensic.py), ela_from_image (ela.py)   *)
(*                                                                         *)
(* One call, statement by statement.  `files` holds which of the two files *)
(* the call writes exist: "tmp" is <output path>.tmp.jpg, "out" the ELA    *)
(* image.  Every statement that opens, decodes or writes a file can raise; *)
(* only os.remove stands inside a try.                                     *)
(***************************************************************************)
MaxElaFrame == 2    \* the call is made on one of the frames 0..MaxElaFrame

\* the call at its first statement
EngineInit(impl, fname, img, files) ==
    [pc |-> "open", impl |-> impl, fname |-> fname, img |-> img, files |-> files,
     result |-> None, raised |-> FALSE, tmp_saved |-> FALSE,
     remove_failed |-> FALSE]

ElaSpecInit ==
    /\ \E impl \in {"ela_image_analysis", "ela_from_image"},
          k \in 0..MaxElaFrame, img \in Images, files \in SUBSET {"out"} :
          eng = EngineInit(impl, FrameName(k), img, files)
    /\ samp = Idle /\ scn = Idle /\ dup = Idle /\ rot = Idle
    /\ run = Idle /\ fs = Idle

\* an exception leaves the call: no handler, no finally
EngineRaise(e) == [e EXCEPT !.pc = "raised", !.raised = TRUE]

\* orig = Image.open(img_path).convert("RGB")
OpenOriginal ==
    /\ eng.pc = "open"
    /\ eng' = [eng EXCEPT !.pc = "save_tmp"]
    /\ UNCHANGED <<samp, scn, dup, rot, run, fs>>

OpenOriginalFails ==
    /\ eng.pc = "open"
    /\ eng' = EngineRaise(eng)
    /\ UNCHANGED <<samp, scn, dup, rot, run, fs>>

\* orig.save(tmp_path, "JPEG", quality=...)
SaveTmp ==
    /\ eng.pc = "save_tmp"
    /\ eng' = [eng EXCEPT !.pc = "diff", !.files = @ \cup {"tmp"},
                          !.tmp_saved = TRUE]
    /\ UNCHANGED <<samp, scn, dup, rot, run, fs>>

\* the save raises: whether it leaves a partly written file behind depends on
\* the imaging library
SaveTmpFails ==
    /\ eng.pc = "save_tmp"
    /\ \E partial \in BOOLEAN :
          eng' = EngineRaise([eng EXCEPT !.files =
                                 IF partial THEN @ \cup {"tmp"} ELSE @])
    /\ UNCHANGED <<samp, scn, dup, rot, run, fs>>

\* comp = Image.open(tmp_path); diff = ImageChops.difference(orig, comp);
\* the amplified image
Difference ==
    /\ eng.pc = "diff"
    /\ eng' = [eng EXCEPT !.pc = "save_out"]
    /\ UNCHANGED <<samp, scn, dup, rot, run, fs>>

DifferenceFails ==
    /\ eng.pc = "diff"
    /\ eng' = EngineRaise(eng)
    /\ UNCHANGED <<samp, scn, dup, rot, run, fs>>

\* scaled.save(out_path) / ela_img.save(dst_path)
SaveEla ==
    /\ eng.pc = "save_out"
    /\ eng' = [eng EXCEPT !.pc = "remove", !.files = @ \cup {"out"}]
    /\ UNCHANGED <<samp, scn, dup, rot, run, fs>>

SaveElaFails ==
    /\ eng.pc = "save_out"
    /\ eng' = EngineRaise(eng)
    /\ UNCHANGED <<samp, scn, dup, rot, run, fs>>

\* the value returned: max_diff, or dst_path
EngineResult(e) ==
    IF e.impl = "ela_image_analysis" THEN <<ElaMaxDiff(e.img)>>
    ELSE <<<<"ela", e.fname>>>>

\* try: os.remove(tmp_path), and the return
RemoveTmp ==
    /\ eng.pc = "remove"
    /\ eng' = [eng EXCEPT !.pc = "returned", !.files = @ \ {"tmp"},
                          !.result = EngineResult(eng)]
    /\ UNCHANGED <<samp, scn, dup, rot, run, fs>>

\* os.remove raises: except Exception: pass, and the return
RemoveTmpFails ==
    /\ eng.pc = "remove"
    /\ eng' = [eng EXCEPT !.pc = "returned", !.remove_failed = TRUE,
                          !.result = EngineResult(eng)]
    /\ UNCHANGED <<samp, scn, dup, rot, run, fs>>

ElaNext ==
    \/ OpenOriginal \/ OpenOriginalFails
    \/ SaveTmp \/ SaveTmpFails
    \/ Difference \/ DifferenceFails
    \/ SaveEla \/ SaveElaFails
    \/ RemoveTmp \/ RemoveTmpFails

SpecEla == ElaSpecInit /\ [][ElaNext]_vars

\* C11 as claimed: once the ELA Engine has returned or failed on a frame, the
\* temporary recompressed copy it created no longer exists, also when an error
\* occurred between creating the copy and finishing, unless the removal itself
\* failed; and a failed removal is never raised to the caller.
C11_TmpRemoved ==
    /\ (eng.pc \in {"returned", "raised"} /\ eng.tmp_saved /\ ~eng.remove_failed) =>
           "tmp" \notin eng.files
    /\ (eng.pc # "idle" /\ eng.remove_failed) => ~eng.raised

=============================================================================
